---- MODULE Spec2Model ----
(***************************************************************************)
(* Model of the seven-segment display reader (SegmentDisplayReader), its   *)
(* timing worker and the message channels between them.                    *)
(*                                                                         *)
(* Frames are grayscale images (r = g = b), so the gray value of a pixel   *)
(* (r + g + b) / 3 is an integer and the summed brightness of a frame is   *)
(* three times the sum of its gray values.  Coordinates are <<x, y>>.      *)
(***************************************************************************)
EXTENDS Integers, Sequences, FiniteSets, TLC

(***************************************************************************)
(* Canvas size and the synthetic frames                                    *)
(***************************************************************************)
\* canvas.width and canvas.height of the reader's canvas
Width == 29
Height == 12

Coords == (0 .. Width - 1) \X (0 .. Height - 1)

\* Row-major enumeration of the canvas (y outer, x inner), as every
\* "for y ... for x ..." loop and bitmaskToPixelArray visit it.
ScanOrder == [i \in 1 .. Width * Height |-> <<(i - 1) % Width, (i - 1) \div Width>>]

ScanIndex(p) == p[2] * Width + p[1] + 1

\* A display layout is a 7 x 2 arrangement of cells; cell <<c, r>> has a hole
\* interior of 3 x 4 pixels at x in 4c+1 .. 4c+3, y in 5r+2 .. 5r+5 and a wall
\* one pixel thick around it.  A cell is "full" (12 hole pixels), "notch"
\* (11: one corner pixel is wall), "small" (10: two corner pixels are wall)
\* or "none" (absent: no wall, no hole).
Cells == (0 .. 6) \X (0 .. 1)

CellBox(cell) ==
    {p \in Coords : /\ p[1] >= 4 * cell[1] /\ p[1] <= 4 * cell[1] + 4
                    /\ p[2] >= 5 * cell[2] + 1 /\ p[2] <= 5 * cell[2] + 6}

CellInterior(cell, kind) ==
    LET full == {p \in Coords : /\ p[1] >= 4 * cell[1] + 1 /\ p[1] <= 4 * cell[1] + 3
                               /\ p[2] >= 5 * cell[2] + 2 /\ p[2] <= 5 * cell[2] + 5}
        c1 == <<4 * cell[1] + 1, 5 * cell[2] + 2>>
        c2 == <<4 * cell[1] + 1, 5 * cell[2] + 3>>
    IN  CASE kind = "full" -> full
          [] kind = "notch" -> full \ {c1}
          [] kind = "small" -> full \ {c1, c2}
          [] OTHER -> {}

Layout12 == [cell \in Cells |-> IF cell[1] <= 5 THEN "full" ELSE "none"]
Layout13 == [cell \in Cells |-> IF cell = <<6, 0>> THEN "none" ELSE "full"]
Layout11 == [cell \in Cells |-> IF cell = <<5, 1>> THEN "small" ELSE Layout12[cell]]
LayoutJitter ==
    [cell \in Cells |-> IF cell \in {<<1, 0>>, <<4, 1>>} THEN "notch" ELSE Layout12[cell]]

\* Twelve holes that are not six pairs: the lower hole alone in columns 0 and
\* 6, two holes in columns 1..5
LayoutUneven ==
    [cell \in Cells |-> IF cell \in {<<0, 0>>, <<6, 0>>} THEN "none" ELSE "full"]

\* Eleven cells of the twelve, the lower cell of column 5 absent
LayoutEleven == [cell \in Cells |-> IF cell = <<5, 1>> THEN "none" ELSE Layout12[cell]]

\* A wall one pixel thick from the top edge to the bottom edge at x = 26: the
\* two columns of pixels to its right touch three edges of the canvas
Bar == {p \in Coords : p[1] = 26}

Walls(layout) ==
    UNION {CellBox(cell) \ CellInterior(cell, layout[cell]) :
              cell \in {c \in Cells : layout[c] # "none"}}

\* The digit column a wall pixel belongs to
ColumnOf(p) == IF p[1] \div 4 > 6 THEN 6 ELSE p[1] \div 4

\* A frame: the wall pixels of the columns in "on" have gray value "wall",
\* the other pixels of row 0 have gray value "top" and every other pixel has
\* gray value "rest".
FrameOf(name) ==
    CASE name = "lit12" -> [walls |-> Walls(Layout12), on |-> 0 .. 6, wall |-> 200, top |-> 20, rest |-> 20]
      [] name = "lit11" -> [walls |-> Walls(Layout11), on |-> 0 .. 6, wall |-> 200, top |-> 20, rest |-> 20]
      [] name = "lit13" -> [walls |-> Walls(Layout13), on |-> 0 .. 6, wall |-> 200, top |-> 20, rest |-> 20]
      [] name = "litJ" -> [walls |-> Walls(LayoutJitter), on |-> 0 .. 6, wall |-> 200, top |-> 20, rest |-> 20]
      [] name = "litU" -> [walls |-> Walls(LayoutUneven), on |-> 0 .. 6, wall |-> 200, top |-> 20, rest |-> 20]
      [] name = "litS" -> [walls |-> Walls(LayoutEleven) \cup Bar, on |-> 0 .. 6, wall |-> 200, top |-> 20, rest |-> 20]
      [] name = "half" -> [walls |-> Walls(Layout12), on |-> 0 .. 2, wall |-> 200, top |-> 20, rest |-> 20]
      [] name = "litT" -> [walls |-> Walls(Layout12), on |-> 0 .. 6, wall |-> 191, top |-> 39, rest |-> 46]
      [] name = "darkT" -> [walls |-> {}, on |-> {}, wall |-> 100, top |-> 100, rest |-> 100]
      [] OTHER -> [walls |-> {}, on |-> {}, wall |-> 20, top |-> 20, rest |-> 20]

AllFrames == {"lit12", "lit11", "lit13", "litJ", "litU", "litS", "half", "litT", "darkT", "dark"}

RECURSIVE Tabulate(_, _)
Tabulate(Op(_), S) ==
    IF S = {} THEN <<>>
    ELSE LET e == CHOOSE z \in S : TRUE
         IN  (e :> Op(e)) @@ Tabulate(Op, S \ {e})

PixelsOf(name) ==
    LET f == FrameOf(name)
    IN  [p \in Coords |-> IF p \in f.walls /\ ColumnOf(p) \in f.on THEN f.wall
                          ELSE IF p[2] = 0 THEN f.top ELSE f.rest] @@ <<>>

\* The image data of every frame, as gray values
FramePixels == Tabulate(PixelsOf, AllFrames)

\* getPixelGrayValue: (r + g + b) / 3 of the pixel at (x, y)
getPixelGrayValue(image, p) == FramePixels[image][p]

(***************************************************************************)
(* Exact rational arithmetic for hole centres and k-means centres          *)
(***************************************************************************)
Abs(n) == IF n < 0 THEN -n ELSE n

RECURSIVE Gcd(_, _)
Gcd(a, b) == IF b = 0 THEN a ELSE Gcd(b, a % b)

\* n / d with d > 0, in lowest terms
Frac(n, d) == LET g == Gcd(Abs(n), d) IN [n |-> n \div g, d |-> d \div g]

\* Comparison and sums over the least common denominator
Lcd(a, b) == (a.d \div Gcd(a.d, b.d)) * b.d
FracLess(a, b) == a.n * (Lcd(a, b) \div a.d) < b.n * (Lcd(a, b) \div b.d)
FracAdd(a, b) == Frac(a.n * (Lcd(a, b) \div a.d) + b.n * (Lcd(a, b) \div b.d), Lcd(a, b))
FracAbsDiff(a, b) ==
    Frac(Abs(a.n * (Lcd(a, b) \div a.d) - b.n * (Lcd(a, b) \div b.d)), Lcd(a, b))

(***************************************************************************)
(* Flood fill (generateBitmask) and its users                              *)
(***************************************************************************)
create2dArray(fillValue) == [p \in Coords |-> fillValue]

\* directions without the diagonal steps (C11 does not survive it)
directionsOrthogonal == << <<0, -1>>, <<0, -1>>, <<0, -1>>,
                           <<-1, 0>>, <<1, 0>>,
                           <<0, 1>>, <<0, 1>>, <<0, 1>> >>

directions == << <<-1, -1>>, <<0, -1>>, <<1, -1>>,
                 <<-1, 0>>, <<1, 0>>,
                 <<-1, 1>>, <<0, 1>>, <<1, 1>> >>

\* The "for (const [dx, dy] of directions)" loop for one dequeued coordinate.
\* include is the set of coordinates the test function accepts; a coordinate
\* with x outside the canvas reads an undefined cell, which no test function
\* of the reader accepts.
RECURSIVE visitNeighbours(_, _, _, _)
visitNeighbours(include, next, i, acc) ==
    IF i > 8 THEN acc
    ELSE LET n == <<next[1] + directions[i][1], next[2] + directions[i][2]>>
             rowExists == n[2] >= 0 /\ n[2] < Height
         IN  IF n \notin acc.visited /\ rowExists
             THEN IF n \in include
                  THEN visitNeighbours(include, next, i + 1,
                           [queue |-> Append(acc.queue, n),
                            visited |-> acc.visited \cup {n},
                            result |-> acc.result \cup {n}])
                  ELSE visitNeighbours(include, next, i + 1,
                           [acc EXCEPT !.visited = acc.visited \cup {n}])
             ELSE visitNeighbours(include, next, i + 1, acc)

\* The "while (queue.length)" loop, run for at most steps iterations (the
\* recursion halves the step count so that long fills stay shallow).  The
\* result bitmap is kept as the set of its 1-cells; visited is the set of
\* coordinates handed to the test function.
RECURSIVE floodLoop(_, _, _)
floodLoop(include, acc, steps) ==
    IF steps = 0 \/ acc.queue = <<>> THEN acc
    ELSE IF steps = 1
         THEN visitNeighbours(include, Head(acc.queue), 1,
                  [acc EXCEPT !.queue = Tail(acc.queue)])
         ELSE floodLoop(include, floodLoop(include, acc, steps \div 2), steps - steps \div 2)

\* Every coordinate is enqueued at most once after the seeds, so the loop ends
\* within Len(queue) + Width * Height iterations.
generateBitmask(include, queue) ==
    LET seeds == IF queue = <<>> THEN << <<0, 0>> >> ELSE queue
    IN  floodLoop(include, [queue |-> seeds, visited |-> {}, result |-> {}],
                  Len(seeds) + Width * Height)

BitmaskOf(cells) == [p \in Coords |-> IF p \in cells THEN 1 ELSE 0]

\* bitmaskToPixelArray: the 1-cells of a bitmap in row-major order
bitmaskToPixelArray(cells) == SelectSeq(ScanOrder, LAMBDA p : p \in cells)

\* findHoleComponent: the hole test function rejects coordinates already in the
\* shared visited set and adds every coordinate it is asked about to it.
findHoleComponent(detectable, background, visited, startCoordinate) ==
    LET include == {q \in Coords : q \notin visited /\ q \notin detectable /\ q \notin background}
        fill == generateBitmask(include, <<startCoordinate>>)
    IN  [pixels |-> bitmaskToPixelArray(fill.result),
         visited |-> visited \cup fill.visited]

\* The hole scan of determineLocations: every pixel in row-major order that is
\* neither detectable nor background nor visited starts a component; components
\* of 10 pixels or fewer are dropped as noise.
RECURSIVE holeScan(_, _, _, _, _)
holeScan(detectable, background, from, visited, holeComponents) ==
    LET candidates == {i \in from .. Width * Height :
                          /\ ScanOrder[i] \notin detectable
                          /\ ScanOrder[i] \notin background
                          /\ ScanOrder[i] \notin visited}
    IN  IF candidates = {} THEN holeComponents
        ELSE LET i == CHOOSE c \in candidates : \A d \in candidates : c <= d
                 component == findHoleComponent(detectable, background, visited, ScanOrder[i])
             IN  holeScan(detectable, background, i + 1, component.visited,
                     IF Len(component.pixels) > 10
                     THEN Append(holeComponents, component.pixels)
                     ELSE holeComponents)

RECURSIVE SumCoord(_, _, _, _)
SumCoord(pixels, axis, from, to) ==
    IF from > to THEN 0
    ELSE IF from = to THEN pixels[from][axis]
    ELSE LET mid == (from + to) \div 2
         IN  SumCoord(pixels, axis, from, mid) + SumCoord(pixels, axis, mid + 1, to)

\* centerX and centerY of a hole: the mean position of its pixels
withCenter(pixels) ==
    [pixels |-> pixels,
     centerX |-> Frac(SumCoord(pixels, 1, 1, Len(pixels)), Len(pixels)),
     centerY |-> Frac(SumCoord(pixels, 2, 1, Len(pixels)), Len(pixels))]

\* Array.prototype.sort with a numeric comparator is stable: an insertion sort
\* that places an item after the items whose key is not greater.
RECURSIVE insertByKey(_, _)
insertByKey(sorted, item) ==
    IF sorted = <<>> THEN <<item>>
    ELSE IF FracLess(item.key, Head(sorted).key) THEN <<item>> \o sorted
    ELSE <<Head(sorted)>> \o insertByKey(Tail(sorted), item)

RECURSIVE sortByKey(_)
sortByKey(items) ==
    IF items = <<>> THEN <<>>
    ELSE insertByKey(sortByKey(SubSeq(items, 1, Len(items) - 1)), items[Len(items)])

sortByCenterX(components) ==
    LET keyed == [i \in 1 .. Len(components) |-> [key |-> components[i].centerX, item |-> components[i]]]
        sorted == sortByKey(keyed)
    IN  [i \in 1 .. Len(sorted) |-> sorted[i].item]

\* sortByCenterY with the comparison reversed (C10 does not survive it)
sortByCenterYDescending(components) ==
    LET keyed == [i \in 1 .. Len(components) |->
                     [key |-> Frac(-components[i].centerY.n, components[i].centerY.d),
                      item |-> components[i]]]
        sorted == sortByKey(keyed)
    IN  [i \in 1 .. Len(sorted) |-> sorted[i].item]

sortByCenterY(components) ==
    LET keyed == [i \in 1 .. Len(components) |-> [key |-> components[i].centerY, item |-> components[i]]]
        sorted == sortByKey(keyed)
    IN  [i \in 1 .. Len(sorted) |-> sorted[i].item]

(***************************************************************************)
(* k-means grouping of the holes into six digits                           *)
(***************************************************************************)
\* number of groups (const k = 6)
k == 6

\* The nearest centre: the lowest index among the centres at minimal distance
\* (the scan keeps the first centre whose distance is strictly smaller).
bestK(centerX, centers) ==
    CHOOSE ki \in 0 .. k - 1 :
        /\ \A other \in 0 .. k - 1 :
              ~FracLess(FracAbsDiff(centerX, centers[other + 1]),
                        FracAbsDiff(centerX, centers[ki + 1]))
        /\ \A lower \in 0 .. ki - 1 :
              FracLess(FracAbsDiff(centerX, centers[ki + 1]),
                       FracAbsDiff(centerX, centers[lower + 1]))

RECURSIVE sumCenters(_, _, _, _)
sumCenters(holeComponents, assignments, ki, index) ==
    IF index > Len(holeComponents) THEN Frac(0, 1)
    ELSE IF assignments[index] = ki
         THEN FracAdd(holeComponents[index].centerX,
                      sumCenters(holeComponents, assignments, ki, index + 1))
         ELSE sumCenters(holeComponents, assignments, ki, index + 1)

\* One pass of the "while (changed && iteration < 10)" loop and the passes after it
RECURSIVE kMeansLoop(_, _, _, _)
kMeansLoop(holeComponents, centers, assignments, iteration) ==
    LET assigned == [j \in 1 .. Len(holeComponents) |-> bestK(holeComponents[j].centerX, centers)]
        changed == assigned # assignments
        count(ki) == Cardinality({j \in 1 .. Len(holeComponents) : assigned[j] = ki})
        updated == [index \in 1 .. k |->
                       IF count(index - 1) > 0
                       THEN LET sum == sumCenters(holeComponents, assigned, index - 1, 1)
                            IN  Frac(sum.n, sum.d * count(index - 1))
                       ELSE centers[index]]
    IN  IF changed /\ iteration + 1 < 10
        THEN kMeansLoop(holeComponents, updated, assigned, iteration + 1)
        ELSE [centers |-> updated, assignments |-> assigned]

\* The six groups in left-to-right order of their final centre: position
\* digit + 1 of the result is the group of digit "digit".
groupHoles(holeComponents) ==
    LET componentCount == Len(holeComponents)
        sorted == sortByCenterX(holeComponents)
        centers == [index \in 1 .. k |-> sorted[((index - 1) * componentCount) \div k + 1].centerX]
        final == kMeansLoop(sorted, centers, [j \in 1 .. componentCount |-> 0], 0)
        groups == [index \in 1 .. k |->
                      [key |-> final.centers[index],
                       group |-> SelectSeq([j \in 1 .. componentCount |-> [at |-> j, hole |-> sorted[j]]],
                                           LAMBDA e : final.assignments[e.at] = index - 1)]]
        groupObjects == sortByKey(groups)
    IN  [index \in 1 .. k |->
            [j \in 1 .. Len(groupObjects[index].group) |-> groupObjects[index].group[j].hole]]

(***************************************************************************)
(* Calibration engine (determineLocations)                                 *)
(***************************************************************************)
\* Configuration defaults copied by the constructor
grayThreshold == 90
floodFillDpThreshold == 40

\* Distance to search for vertical and horizontal segments
reach == 7
horizontalReach == 6

\* Number of hole components a calibration needs
requiredHoles == 12

Digits == 0 .. 5
Segments == 0 .. 7

emptySamples == [digit \in Digits |-> [segment \in Segments |-> <<>>]]

RECURSIVE sumRow(_, _, _)
sumRow(image, y, x) ==
    IF x >= Width THEN 0
    ELSE 3 * getPixelGrayValue(image, <<x, y>>) + sumRow(image, y, x + 1)

RECURSIVE sumRows(_, _)
sumRows(image, y) ==
    IF y >= Height THEN 0 ELSE sumRow(image, y, 0) + sumRows(image, y + 1)

\* Sum of r + g + b over all pixels of a frame
totalBrightness(image) == sumRows(image, 0)

\* getOrderedCalibrationImages with two images held: <<lit, unlit>>
getOrderedCalibrationImages(images) ==
    LET imageA == images[1]
        imageB == images[2]
    IN  IF totalBrightness(imageA) > totalBrightness(imageB)
        THEN <<imageA, imageB>>
        ELSE <<imageB, imageA>>

\* floodFillDecimalPoint keeping the pixels 6 away from the start as well (C23
\* does not survive it)
floodFillDecimalPointInclusive(gray, startX, startY) ==
    LET include == {p \in Coords : gray[p] > floodFillDpThreshold}
        mask == generateBitmask(include, << <<startX, startY>> >>).result
    IN  SelectSeq(bitmaskToPixelArray(mask),
                  LAMBDA p : /\ p[1] >= startX - 6 /\ p[1] <= startX + 6
                             /\ p[2] >= startY - 6 /\ p[2] <= startY + 6)

\* floodFillDecimalPoint over the difference grid
floodFillDecimalPoint(gray, startX, startY) ==
    LET include == {p \in Coords : gray[p] > floodFillDpThreshold}
        mask == generateBitmask(include, << <<startX, startY>> >>).result
    IN  SelectSeq(bitmaskToPixelArray(mask),
                  LAMBDA p : /\ p[1] > startX - 6 /\ p[1] < startX + 6
                             /\ p[2] > startY - 6 /\ p[2] < startY + 6)

\* The probes addToSeg accepts for the pixels of one hole at one offset
probes(pixels, dx, dy, detectable) ==
    SelectSeq([i \in 1 .. Len(pixels) |-> <<pixels[i][1] + dx, pixels[i][2] + dy>>],
              LAMBDA q : q \in Coords /\ q \in detectable)

Max(S, default) == IF S = {} THEN default ELSE CHOOSE m \in S : \A n \in S : n <= m

\* The probes addToSeg accepts for the two holes of one digit, per segment
\* (A = 0 above, F = 5 left, B = 1 right and G = 6 below the upper hole;
\* E = 4 left, C = 2 right and D = 3 below the lower hole)
addToSeg(group, detectable) ==
    LET ordered == sortByCenterY(group)
        upper == ordered[1].pixels
        lower == ordered[2].pixels
    IN  [segment \in 0 .. 6 |->
            CASE segment = 0 -> probes(upper, 0, -horizontalReach, detectable)
              [] segment = 5 -> probes(upper, -reach, 0, detectable)
              [] segment = 1 -> probes(upper, reach, 0, detectable)
              [] segment = 6 -> probes(upper, 0, horizontalReach, detectable)
              [] segment = 4 -> probes(lower, -reach, 0, detectable)
              [] segment = 2 -> probes(lower, reach, 0, detectable)
              [] segment = 3 -> probes(lower, 0, horizontalReach, detectable)] @@ <<>>

\* The body of groupObjects.forEach for one digit: a group that does not have
\* exactly 2 holes is skipped; otherwise the probes are appended to the digit's
\* segments 0..6 and segment 7 is replaced by the decimal point pixels.
sampleDigit(segments, group, added, gray) ==
    IF Len(group) # 2 THEN segments
    ELSE LET sampled == [segment \in 0 .. 6 |-> segments[segment] \o added[segment]]
             all == UNION {{sampled[segment][i] : i \in 1 .. Len(sampled[segment])} : segment \in 0 .. 6}
             rightmostX == Max({p[1] : p \in all}, -1)
             bottommostY == Max({p[2] : p \in all}, -1)
         IN  [segment \in Segments |->
                 IF segment < 7 THEN sampled[segment]
                 ELSE IF rightmostX # -1 /\ bottommostY # -1
                      THEN floodFillDecimalPoint(gray, rightmostX + 2, bottommostY + 2)
                      ELSE segments[7]]

\* What determineLocations has computed once the holes are grouped: the
\* reference grids, the difference grid, the detectable pixels, the background
\* mask, the number of hole components, their groups and the probes of each
\* group of 2.
locations(ordered, gray, detectable, background, holes, groups) ==
    [litReference |-> FramePixels[ordered[1]],
     unlitReference |-> FramePixels[ordered[2]],
     grayArray |-> gray,
     detectable |-> detectable,
     backgroundMask |-> BitmaskOf(background) @@ <<>>,
     holes |-> holes,
     groups |-> groups,
     added |-> [i \in 1 .. Len(groups) |->
                   IF Len(groups[i]) = 2 THEN addToSeg(groups[i], detectable) ELSE <<>>]]

\* The hole scan, the test for exactly 12 components and the grouping
locateHoles(ordered, gray, detectable, background) ==
    LET found == holeScan(detectable, background, 1, {}, <<>>)
    IN  locations(ordered, gray, detectable, background, Len(found),
                  IF Len(found) = requiredHoles
                  THEN groupHoles([i \in 1 .. Len(found) |-> withCenter(found[i])])
                  ELSE <<>>)

\* The grids loop and the background flood from (0, 0)
locateBackground(ordered) ==
    LET gray == [p \in Coords |->
                    Abs(getPixelGrayValue(ordered[1], p) - getPixelGrayValue(ordered[2], p))] @@ <<>>
        detectable == {p \in Coords : gray[p] > grayThreshold}
    IN  locateHoles(ordered, gray, detectable,
                    generateBitmask(Coords \ detectable, <<>>).result)

\* determineLocations up to the grouping of the holes, for two held images
locate(images) == locateBackground(getOrderedCalibrationImages(images))

\* The frames each specification draws its images from
LiveFrames == {"lit12", "dark"}
EngineFrames == {"lit12", "dark", "lit11", "lit13", "litJ", "litU", "litS", "litT", "darkT"}

\* The pairs of frames a reader can hold
HeldPairs == (LiveFrames \X LiveFrames) \cup (EngineFrames \X EngineFrames)

\* What determineLocations computes from an ordered pair <<lit, unlit>>
locatedOrdered ==
    Tabulate(locateBackground, {getOrderedCalibrationImages(images) : images \in HeldPairs})

\* locate(images) for every pair of held frames
located ==
    [images \in HeldPairs |-> locatedOrdered[getOrderedCalibrationImages(images)]] @@ <<>>

\* The return value of determineLocations and the fields it has written, from
\* what it found in the two images.  success is the return value; when it is
\* FALSE the reader ends in the state resetCalibration leaves.
sampleLocations(found, samples) ==
    [success |-> found.holes = requiredHoles,
     holes |-> found.holes,
     grayArray |-> found.grayArray,
     litReference |-> found.litReference,
     unlitReference |-> found.unlitReference,
     backgroundMask |-> found.backgroundMask,
     segmentSamples |->
         IF found.holes = requiredHoles
         THEN [digit \in Digits |->
                  sampleDigit(samples[digit], found.groups[digit + 1],
                              found.added[digit + 1], found.grayArray)]
         ELSE samples]

\* determineLocations with two images held
determineLocations(images, samples) ==
    sampleLocations(located[<<images[1], images[2]>>], samples)

(***************************************************************************)
(* Decoding one frame (readDisplays)                                       *)
(***************************************************************************)
\* Mapping of 7-segment bitmask to characters
charMap ==
    (0 :> " ") @@ (2 :> "apostrophe") @@ (4 :> "i") @@ (6 :> "1") @@ (7 :> "7") @@ (8 :> "_") @@
    (16 :> ",") @@ (28 :> "u") @@ (30 :> "J") @@ (32 :> "backtick") @@ (34 :> "quote") @@
    (48 :> "I") @@ (56 :> "L") @@ (57 :> "C") @@ (61 :> "G") @@ (62 :> "U") @@
    (63 :> "0") @@ (64 :> "-") @@ (79 :> "3") @@ (80 :> "r") @@ (83 :> "?") @@
    (84 :> "n") @@ (88 :> "c") @@ (91 :> "2") @@ (92 :> "o") @@ (94 :> "d") @@
    (95 :> "a") @@ (102 :> "4") @@ (103 :> "q") @@ (109 :> "5") @@ (110 :> "Y") @@
    (111 :> "9") @@ (113 :> "F") @@ (115 :> "P") @@ (116 :> "h") @@ (118 :> "H") @@
    (119 :> "A") @@ (120 :> "t") @@ (121 :> "E") @@ (123 :> "e") @@ (124 :> "b") @@
    (125 :> "6") @@ (127 :> "8")

\* The three characters emitted for a bitmask charMap does not map
placeholder == <<"U+00F4", "U+00BF", "U+00BE">>

\* A string is the sequence of its characters; lastDisplay = null is NoDisplay
NoDisplay == <<"null">>

RECURSIVE SumSeq(_, _, _)
SumSeq(values, from, to) ==
    IF from > to THEN 0
    ELSE IF from = to THEN values[from]
    ELSE LET mid == (from + to) \div 2
         IN  SumSeq(values, from, mid) + SumSeq(values, mid + 1, to)

\* estimateAmbientOffset: mean of (current gray - unlit reference) over the
\* sampled background pixels, 0 when none is sampled
estimateAmbientOffset(currentData, mask, unlit) ==
    LET stepY == IF Height \div 40 > 1 THEN Height \div 40 ELSE 1
        stepX == IF Width \div 40 > 1 THEN Width \div 40 ELSE 1
        sampled == SelectSeq(ScanOrder,
                       LAMBDA p : p[2] % stepY = 0 /\ p[1] % stepX = 0 /\ mask[p] # 0)
        deltas == [i \in 1 .. Len(sampled) |->
                      getPixelGrayValue(currentData, sampled[i]) - unlit[sampled[i]]]
        count == Len(sampled)
    IN  IF count = 0 THEN Frac(0, 1) ELSE Frac(SumSeq(deltas, 1, count), count)

\* isPixelLit classifying a tie as unlit (C13 does not survive it)
isPixelLitStrict(pixelGray, p, ambientOffset, lit, unlit) ==
    Abs(pixelGray * ambientOffset.d - ambientOffset.n - lit[p] * ambientOffset.d)
        < Abs(pixelGray * ambientOffset.d - ambientOffset.n - unlit[p] * ambientOffset.d)

\* isPixelLit: closer (or as close) to the lit reference than to the unlit one.
\* With ambientOffset = n/d the adjusted gray is (pixelGray * d - n) / d, and
\* both distances are divided by the same range = max(|lit - unlit|, 1) > 0, so
\* they compare as their numerators over the common denominator d * range.
isPixelLit(pixelGray, p, ambientOffset, lit, unlit) ==
    LET litGray == lit[p]
        unlitGray == unlit[p]
        den == ambientOffset.d
        adjustedGray == pixelGray * den - ambientOffset.n
        distanceToLit == Abs(adjustedGray - litGray * den)
        distanceToUnlit == Abs(adjustedGray - unlitGray * den)
    IN  distanceToLit <= distanceToUnlit

\* The countdown over the sample pixels of one segment: toLight is decremented
\* on each lit pixel and the segment is on when the decrement reaches 0.
RECURSIVE countdown(_, _, _)
countdown(litFlags, pixelIndex, toLight) ==
    IF pixelIndex > Len(litFlags) THEN FALSE
    ELSE IF litFlags[pixelIndex]
         THEN IF toLight - 1 = 0 THEN TRUE
              ELSE countdown(litFlags, pixelIndex + 1, toLight - 1)
         ELSE countdown(litFlags, pixelIndex + 1, toLight)

\* Whether the countdown of one segment reaches 0, from the classification of
\* its sample pixels: toLight starts at Math.floor(pixelCount * 0.5)
segmentLit(litFlags) == countdown(litFlags, 1, Len(litFlags) \div 2)

\* The classification of the sample pixels of one segment
litFlagsOf(pixels, currentData, ambientOffset, lit, unlit) ==
    [i \in 1 .. Len(pixels) |->
        isPixelLit(getPixelGrayValue(currentData, pixels[i]), pixels[i],
                   ambientOffset, lit, unlit)]

segmentOn(pixels, currentData, ambientOffset, lit, unlit) ==
    segmentLit(litFlagsOf(pixels, currentData, ambientOffset, lit, unlit))

RECURSIVE bitmaskOf(_, _)
bitmaskOf(onFlags, segment) ==
    IF segment > 6 THEN 0
    ELSE (IF onFlags[segment] THEN 2 ^ segment ELSE 0) + bitmaskOf(onFlags, segment + 1)

\* The characters one digit adds to the result
\* charMap[bitmask] || placeholder, with nothing for an unmapped bitmask (C12
\* does not survive it)
charOfOrNothing(bitmask) ==
    IF bitmask \in DOMAIN charMap THEN <<charMap[bitmask]>> ELSE <<>>

\* charMap[bitmask] || placeholder
charOf(bitmask) ==
    IF bitmask \in DOMAIN charMap THEN <<charMap[bitmask]>> ELSE placeholder

\* What one digit adds to the result, from the segments found on (segment 7
\* is the decimal point)
emit(onFlags) ==
    IF onFlags[7] THEN charOf(bitmaskOf(onFlags, 0)) \o <<".">>
    ELSE charOf(bitmaskOf(onFlags, 0))

decodeDigit(digitSegments, currentData, ambientOffset, lit, unlit) ==
    emit([segment \in Segments |->
             segmentOn(digitSegments[segment], currentData, ambientOffset, lit, unlit)])

RECURSIVE decodeDigits(_, _, _, _, _, _)
decodeDigits(samples, digit, currentData, ambientOffset, lit, unlit) ==
    IF digit > 5 THEN <<>>
    ELSE decodeDigit(samples[digit], currentData, ambientOffset, lit, unlit)
         \o decodeDigits(samples, digit + 1, currentData, ambientOffset, lit, unlit)

\* Correct for Stack Pointer and Index Register notation
correctNotation(result) ==
    IF Len(result) >= 3 /\ result[3] = "."
    THEN IF result[1] = "5" /\ result[2] = "P" THEN <<"S">> \o Tail(result)
         ELSE IF result[1] = "1" /\ result[2] = "n" THEN <<"I">> \o Tail(result)
         ELSE result
    ELSE result

\* The string readDisplays decodes from the captured frame
decode(currentData, samples, mask, lit, unlit) ==
    correctNotation(
        decodeDigits(samples, 0, currentData,
                     estimateAmbientOffset(currentData, mask, unlit), lit, unlit))

\* The pixels of a sample set that classify as wanted, in order
keep(pixels, litFlags, wanted) ==
    SelectSeq([i \in 1 .. Len(pixels) |-> [at |-> i, pixel |-> pixels[i]]],
              LAMBDA e : litFlags[e.at] = wanted)

unkeyed(kept) == [i \in 1 .. Len(kept) |-> kept[i].pixel]

\* refine narrowing a set from 70% on (C14 does not survive it)
narrowedFromLimit(pixels, litPixels, offPixels) ==
    IF Len(litPixels) >= (7 * Len(pixels)) \div 10 /\ Len(pixels) > 0 THEN litPixels
    ELSE IF Len(offPixels) >= (7 * Len(pixels)) \div 10 /\ Len(pixels) > 0 THEN offPixels
    ELSE pixels

\* The end of the body of refine for one segment: highLimit is
\* Math.floor(pixelCount * 0.7)
narrowed(pixels, litPixels, offPixels) ==
    IF Len(litPixels) > (7 * Len(pixels)) \div 10 THEN litPixels
    ELSE IF Len(offPixels) > (7 * Len(pixels)) \div 10 THEN offPixels
    ELSE pixels

\* The body of refine for one segment always keeping the lit pixels (C21 does
\* not survive it)
refineSegmentToLit(pixels, litFlags) == unkeyed(keep(pixels, litFlags, TRUE))

\* The body of refine for one segment, from the classification of its pixels
refineSegment(pixels, litFlags) ==
    narrowed(pixels, unkeyed(keep(pixels, litFlags, TRUE)),
             unkeyed(keep(pixels, litFlags, FALSE)))

\* refine: every sample set of every digit narrowed against the captured frame
refine(samples, currentData, mask, lit, unlit) ==
    [digit \in Digits |->
        [segment \in Segments |->
            refineSegment(samples[digit][segment],
                          litFlagsOf(samples[digit][segment], currentData,
                                     estimateAmbientOffset(currentData, mask, unlit),
                                     lit, unlit))]]

\* trackDisplay leaving the counter as it is on a change (C2 does not survive it)
trackDisplayKeepsCount(previous, count, result) ==
    IF previous # result
    THEN [events |-> <<[type |-> "change", value |-> result]>>,
          lastDisplay |-> result,
          consistentOutputCount |-> count]
    ELSE [events |-> IF count = 3 THEN <<[type |-> "output", value |-> result]>> ELSE <<>>,
          lastDisplay |-> previous,
          consistentOutputCount |-> count + 1]

\* trackDisplay firing 'output' whenever the counter is at least 3 (C3 does not
\* survive it)
trackDisplayFromThree(previous, count, result) ==
    IF previous # result
    THEN [events |-> <<[type |-> "change", value |-> result]>>,
          lastDisplay |-> result,
          consistentOutputCount |-> 0]
    ELSE [events |-> IF count >= 3 THEN <<[type |-> "output", value |-> result]>> ELSE <<>>,
          lastDisplay |-> previous,
          consistentOutputCount |-> count + 1]

\* The stability tracker at the end of readDisplays: the notifications it
\* dispatches and the new lastDisplay and consistentOutputCount
trackDisplay(previous, count, result) ==
    IF previous # result
    THEN [events |-> <<[type |-> "change", value |-> result]>>,
          lastDisplay |-> result,
          consistentOutputCount |-> 0]
    ELSE [events |-> IF count = 3 THEN <<[type |-> "output", value |-> result]>> ELSE <<>>,
          lastDisplay |-> previous,
          consistentOutputCount |-> count + 1]

(***************************************************************************)
(* The reader, the timing worker and the two message channels              *)
(***************************************************************************)
MaxQueue == 2
MaxCount == 5
MaxSamples == 5
MaxOrphans == 1
MaxHistory == 5

VARIABLES
    calibrationImages,      \* frames held for calibration
    calibrated,
    lastDisplay,
    consistentOutputCount,
    grayArray,
    litReference,
    unlitReference,
    backgroundMask,
    segmentSamples,
    toWorker,               \* messages posted to the worker, not yet received
    toReader,               \* messages posted by the worker, not yet received
    interval,               \* the worker's variable: "undefined", "active", "cleared"
    orphans,                \* running timers whose id the worker no longer holds
    last,                   \* what the latest operation did
    history,                \* strings decoded and notifications since the tracker was initialised
    outputFor,              \* the value 'output' fired for, while every later tick decodes it
    notified,               \* the latest 'change' since resetCalibration and the 'output's after it
    configuration,          \* the fields of the SegmentDisplayReaderConfiguration
    unit                    \* the latest call of a method on its own: arguments and result

readerVars == <<calibrationImages, calibrated, lastDisplay, consistentOutputCount,
                grayArray, litReference, unlitReference, backgroundMask, segmentSamples>>
workerVars == <<interval, orphans>>
ghostVars == <<history, outputFor, notified>>
unitVars == <<configuration, unit>>
vars == <<readerVars, toWorker, toReader, workerVars, last, ghostVars, unitVars>>

(***************************************************************************)
(* SegmentDisplayReaderConfiguration                                       *)
(***************************************************************************)
\* A JavaScript value is a record of its type and, where it has one, its value
Number(n) == [type |-> "number", value |-> n]
String(text) == [type |-> "string", value |-> text]
Boolean(b) == [type |-> "boolean", value |-> b]
NaN == [type |-> "NaN", value |-> 0]
Null == [type |-> "null", value |-> 0]
Undefined == [type |-> "undefined", value |-> 0]

\* ToNumber, which isNaN and the comparisons with a number apply to a value
\* (the strings written are "25", "" and "abc")
ToNumber(v) ==
    CASE v.type = "number" -> v
      [] v.type = "boolean" -> Number(IF v.value THEN 1 ELSE 0)
      [] v.type = "null" -> Number(0)
      [] v.type = "string" -> IF v.value = "25" THEN Number(25)
                              ELSE IF v.value = "" THEN Number(0) ELSE NaN
      [] OTHER -> NaN

\* !isNaN(value) && value > 0 && value < 255
isThreshold(v) ==
    /\ ToNumber(v).type = "number"
    /\ ToNumber(v).value > 0
    /\ ToNumber(v).value < 255

\* The configuration after its constructor
defaultConfiguration ==
    [debugMaskColors |-> String("default"),
     decimalPointFloodFillThreshold |-> Number(floodFillDpThreshold),
     grayThreshold |-> Number(grayThreshold),
     rotate180 |-> Boolean(TRUE)]

\* The setters of the configuration applied to configuration c
setDebugMaskColors(c, value) == [c EXCEPT !.debugMaskColors = value]

setDecimalPointFloodFillThreshold(c, value) ==
    IF isThreshold(value) THEN [c EXCEPT !.decimalPointFloodFillThreshold = value] ELSE c

setGrayThreshold(c, value) ==
    IF isThreshold(value) THEN [c EXCEPT !.grayThreshold = value] ELSE c

setRotate180(c, value) ==
    IF value.type = "boolean" THEN [c EXCEPT !.rotate180 = value] ELSE c

report(op) ==
    [op |-> op, events |-> <<>>, returned |-> "none", attempted |-> FALSE,
     auto |-> FALSE, reset |-> FALSE, ran |-> FALSE, decoded |-> NoDisplay, holes |-> -1,
     refired |-> "no"]

\* The reader's fields as one record; posted collects what an operation posts
readerState ==
    [calibrationImages |-> calibrationImages, calibrated |-> calibrated,
     lastDisplay |-> lastDisplay, consistentOutputCount |-> consistentOutputCount,
     grayArray |-> grayArray, litReference |-> litReference,
     unlitReference |-> unlitReference, backgroundMask |-> backgroundMask,
     segmentSamples |-> segmentSamples, posted |-> <<>>]

setReader(r) ==
    /\ calibrationImages' = r.calibrationImages
    /\ calibrated' = r.calibrated
    /\ lastDisplay' = r.lastDisplay
    /\ consistentOutputCount' = r.consistentOutputCount
    /\ grayArray' = r.grayArray
    /\ litReference' = r.litReference
    /\ unlitReference' = r.unlitReference
    /\ backgroundMask' = r.backgroundMask
    /\ segmentSamples' = r.segmentSamples
    /\ Len(toWorker) + Len(r.posted) <= MaxQueue
    /\ toWorker' = toWorker \o r.posted

\* resetCalibration leaving lastDisplay as it is (C24 does not survive it)
resetCalibrationKeepsDisplay(r) ==
    [r EXCEPT !.posted = Append(@, "readStop"),
              !.backgroundMask = create2dArray(0),
              !.calibrated = FALSE,
              !.calibrationImages = <<>>,
              !.consistentOutputCount = 0,
              !.grayArray = create2dArray(0),
              !.litReference = create2dArray(0),
              !.segmentSamples = emptySamples,
              !.unlitReference = create2dArray(0)]

\* resetCalibration keeping the held images (C9 does not survive it)
resetCalibrationKeepsImages(r) ==
    [r EXCEPT !.posted = Append(@, "readStop"),
              !.backgroundMask = create2dArray(0),
              !.calibrated = FALSE,
              !.consistentOutputCount = 0,
              !.grayArray = create2dArray(0),
              !.lastDisplay = NoDisplay,
              !.litReference = create2dArray(0),
              !.segmentSamples = emptySamples,
              !.unlitReference = create2dArray(0)]

\* resetCalibration applied to reader state r
resetCalibration(r) ==
    [r EXCEPT !.posted = Append(@, "readStop"),
              !.backgroundMask = create2dArray(0),
              !.calibrated = FALSE,
              !.calibrationImages = <<>>,
              !.consistentOutputCount = 0,
              !.grayArray = create2dArray(0),
              !.lastDisplay = NoDisplay,
              !.litReference = create2dArray(0),
              !.segmentSamples = emptySamples,
              !.unlitReference = create2dArray(0)]

\* A failed determineLocations returning without resetCalibration (C25 does not
\* survive it)
calibrationOutcomeUnreset(r, d, posted) ==
    IF d.success
    THEN [state |-> [r EXCEPT !.grayArray = d.grayArray,
                              !.litReference = d.litReference,
                              !.unlitReference = d.unlitReference,
                              !.backgroundMask = d.backgroundMask,
                              !.segmentSamples = d.segmentSamples,
                              !.posted = @ \o posted,
                              !.calibrated = TRUE],
          returned |-> "true", holes |-> d.holes]
    ELSE [state |-> [r EXCEPT !.grayArray = d.grayArray,
                              !.litReference = d.litReference,
                              !.unlitReference = d.unlitReference,
                              !.backgroundMask = d.backgroundMask],
          returned |-> "false", holes |-> d.holes]

\* The rest of attemptCalibration once determineLocations has returned d
calibrationOutcome(r, d, posted) ==
    IF d.success
    THEN [state |-> [r EXCEPT !.grayArray = d.grayArray,
                              !.litReference = d.litReference,
                              !.unlitReference = d.unlitReference,
                              !.backgroundMask = d.backgroundMask,
                              !.segmentSamples = d.segmentSamples,
                              !.posted = @ \o posted,
                              !.calibrated = TRUE],
          returned |-> "true", holes |-> d.holes]
    ELSE [state |-> resetCalibration(r), returned |-> "false", holes |-> d.holes]

\* determineLocations reading a frame that is missing, after it has zeroed the
\* four grids
calibrationThrows(r) ==
    [state |-> [r EXCEPT !.grayArray = create2dArray(0),
                         !.litReference = create2dArray(0),
                         !.unlitReference = create2dArray(0),
                         !.backgroundMask = create2dArray(0)],
     returned |-> "threw", holes |-> -1]

\* attemptCalibration posting no 'readStart' on success (C6 does not survive it)
attemptCalibrationSilent(r) ==
    IF Len(r.calibrationImages) < 2
    THEN calibrationThrows(r)
    ELSE calibrationOutcome(r, determineLocations(r.calibrationImages, r.segmentSamples),
                            <<>>)

\* attemptCalibration applied to reader state r: the new state and the value
\* returned ("threw" when fewer than 2 frames are held)
attemptCalibration(r) ==
    IF Len(r.calibrationImages) < 2
    THEN calibrationThrows(r)
    ELSE calibrationOutcome(r, determineLocations(r.calibrationImages, r.segmentSamples),
                            <<"readStart">>)

\* captureCalibrationImage attempting calibration whatever autoAttemptCalibration
\* is (C7 does not survive it)
captureCalibrationImageEager(r, image, autoAttemptCalibration) ==
    LET initialLength == Len(r.calibrationImages)
        pushed == [r EXCEPT !.calibrationImages = Append(@, image)]
    IN  IF initialLength = 2
        THEN [state |-> [resetCalibration(r) EXCEPT !.calibrationImages = <<image>>],
              attempted |-> FALSE, returned |-> "none", holes |-> -1]
        ELSE IF Len(pushed.calibrationImages) = 2
             THEN attemptCalibration(pushed) @@ [attempted |-> TRUE]
             ELSE [state |-> pushed, attempted |-> FALSE, returned |-> "none", holes |-> -1]

\* captureCalibrationImage applied to reader state r
captureCalibrationImage(r, image, autoAttemptCalibration) ==
    LET initialLength == Len(r.calibrationImages)
        pushed == [r EXCEPT !.calibrationImages = Append(@, image)]
    IN  IF initialLength = 2
        THEN [state |-> [resetCalibration(r) EXCEPT !.calibrationImages = <<image>>],
              attempted |-> FALSE, returned |-> "none", holes |-> -1]
        ELSE IF Len(pushed.calibrationImages) = 2 /\ autoAttemptCalibration
             THEN attemptCalibration(pushed) @@ [attempted |-> TRUE]
             ELSE [state |-> pushed, attempted |-> FALSE, returned |-> "none", holes |-> -1]

\* The end of readDisplays emptying the sample sets (C20 does not survive it)
trackedEmptyingSamples(r, result, t) ==
    [state |-> [r EXCEPT !.lastDisplay = t.lastDisplay,
                         !.consistentOutputCount = t.consistentOutputCount,
                         !.segmentSamples = emptySamples],
     events |-> t.events, decoded |-> result]

\* The end of readDisplays: t is what the stability tracker did with result
tracked(r, result, t) ==
    [state |-> [r EXCEPT !.lastDisplay = t.lastDisplay,
                         !.consistentOutputCount = t.consistentOutputCount],
     events |-> t.events, decoded |-> result]

track(r, result) ==
    tracked(r, result, trackDisplay(r.lastDisplay, r.consistentOutputCount, result))

\* readDisplays applied to reader state r with the frame the camera shows
readDisplays(r, currentData) ==
    track(r, decode(currentData, r.segmentSamples, r.backgroundMask,
                    r.litReference, r.unlitReference))

(***************************************************************************)
(* History variables                                                       *)
(***************************************************************************)
NoHistory == [tracked |-> TRUE, decoded |-> <<>>, events |-> <<>>]
Untracked == [tracked |-> FALSE, decoded |-> <<>>, events |-> <<>>]
NoOutput == [value |-> NoDisplay, reset |-> FALSE]
NoneNotified == [change |-> NoDisplay, outputs |-> 0]

\* history follows direct readDisplays calls and gives up (Untracked) once more
\* than MaxHistory strings have been decoded or once the worker delivers a tick
record(t) ==
    IF history.tracked /\ Len(history.decoded) < MaxHistory
    THEN [history EXCEPT !.decoded = Append(@, t.decoded), !.events = @ \o t.events]
    ELSE Untracked

didReset(r) == \E i \in DOMAIN r.posted : r.posted[i] = "readStop"
fired(t) == \E i \in DOMAIN t.events : t.events[i].type = "output"

\* whether 'output' fired again for the value it last fired for, no tick having
\* decoded anything else since; "afterReset" when resetCalibration ran in between
refired(t) ==
    IF fired(t) /\ outputFor.value = t.decoded
    THEN IF outputFor.reset THEN "afterReset" ELSE "yes"
    ELSE "no"

afterRead(t) ==
    IF fired(t) THEN [value |-> t.decoded, reset |-> FALSE]
    ELSE IF outputFor.value = t.decoded THEN outputFor
    ELSE NoOutput

\* notified after a readDisplays run: a 'change' starts a new count of the
\* 'output' notifications that follow it
afterNotifications(t) ==
    LET changes == SelectSeq(t.events, LAMBDA e : e.type = "change")
        outputs == Len(SelectSeq(t.events, LAMBDA e : e.type = "output"))
    IN  IF changes # <<>>
        THEN [change |-> changes[Len(changes)].value, outputs |-> 0]
        ELSE [notified EXCEPT !.outputs = @ + outputs]

afterOperation(r) ==
    /\ history' = IF didReset(r) THEN NoHistory ELSE history
    /\ notified' = IF didReset(r) THEN NoneNotified ELSE notified
    /\ outputFor' = IF didReset(r) /\ outputFor.value # NoDisplay
                    THEN [outputFor EXCEPT !.reset = TRUE] ELSE outputFor

readReport(op, t) ==
    [report(op) EXCEPT !.events = t.events, !.ran = TRUE, !.decoded = t.decoded,
                       !.refired = refired(t)]

(***************************************************************************)
(* Initial state and operations                                            *)
(***************************************************************************)
Init ==
    /\ calibrationImages = <<>>
    /\ calibrated = FALSE
    /\ lastDisplay = NoDisplay
    /\ consistentOutputCount = 0
    /\ grayArray = create2dArray(0)
    /\ litReference = create2dArray(0)
    /\ unlitReference = create2dArray(0)
    /\ backgroundMask = create2dArray(0)
    /\ segmentSamples = emptySamples
    /\ toWorker = <<>>
    /\ toReader = <<>>
    /\ interval = "undefined"
    /\ orphans = 0
    /\ last = report("new")
    /\ history = NoHistory
    /\ outputFor = NoOutput
    /\ notified = NoneNotified
    /\ configuration = defaultConfiguration
    /\ unit = [op |-> "none"]

\* The reader after a calibration operation that did c
calibrationStep(op, c, autoAttemptCalibration) ==
    /\ setReader(c.state)
    /\ last' = [report(op) EXCEPT !.attempted = c.attempted,
                    !.returned = c.returned, !.holes = c.holes,
                    !.auto = autoAttemptCalibration, !.reset = didReset(c.state)]
    /\ afterOperation(c.state)
    /\ UNCHANGED <<toReader, workerVars, unitVars>>

CaptureCalibrationImage(image, autoAttemptCalibration) ==
    calibrationStep("captureCalibrationImage",
                    captureCalibrationImage(readerState, image, autoAttemptCalibration),
                    autoAttemptCalibration)

AttemptCalibration ==
    /\ \A digit \in Digits : \A segment \in Segments :
           Len(segmentSamples[digit][segment]) < MaxSamples
    /\ calibrationStep("attemptCalibration",
                       attemptCalibration(readerState) @@ [attempted |-> TRUE], FALSE)

ResetCalibration ==
    /\ setReader(resetCalibration(readerState))
    /\ last' = [report("resetCalibration") EXCEPT !.reset = TRUE]
    /\ afterOperation(resetCalibration(readerState))
    /\ UNCHANGED <<toReader, workerVars, unitVars>>

\* The reader after a readDisplays run that did t; direct tells a direct call
\* from a tick delivered by the worker
readStep(op, t, direct) ==
    /\ t.state.consistentOutputCount <= MaxCount
    /\ setReader(t.state)
    /\ last' = readReport(op, t)
    /\ history' = IF direct THEN record(t) ELSE Untracked
    /\ outputFor' = afterRead(t)
    /\ notified' = afterNotifications(t)

\* readDisplays called directly
ReadDisplays(currentData) ==
    /\ readStep("readDisplays", readDisplays(readerState, currentData), TRUE)
    /\ UNCHANGED <<toReader, workerVars, unitVars>>

\* The reader's listener without the test of calibrated (C4 does not survive it)
ReaderOnMessageUnguarded(currentData) ==
    /\ toReader # <<>>
    /\ toReader' = Tail(toReader)
    /\ readStep("message", readDisplays(readerState, currentData), FALSE)
    /\ UNCHANGED <<workerVars, unitVars>>

\* The reader's listener for messages from the worker
ReaderOnMessage(currentData) ==
    /\ toReader # <<>>
    /\ toReader' = Tail(toReader)
    /\ IF calibrated = FALSE
       THEN /\ setReader([readerState EXCEPT !.posted = <<"readStop">>])
            /\ last' = report("message")
            /\ UNCHANGED ghostVars
       ELSE readStep("message", readDisplays(readerState, currentData), FALSE)
    /\ UNCHANGED <<workerVars, unitVars>>

\* The worker's listener for messages from the reader.  setInterval starts a
\* new timer and interval holds its id; a timer that was running under the
\* previous id keeps running and can no longer be cleared.
WorkerOnMessage ==
    /\ toWorker # <<>>
    /\ toWorker' = Tail(toWorker)
    /\ IF Head(toWorker) = "readStart"
       THEN /\ interval = "active" => orphans < MaxOrphans
            /\ orphans' = IF interval = "active" THEN orphans + 1 ELSE orphans
            /\ interval' = "active"
       ELSE /\ interval' = IF interval = "active" THEN "cleared" ELSE interval
            /\ UNCHANGED orphans
    /\ last' = report("worker")
    /\ UNCHANGED <<readerVars, toReader, ghostVars, unitVars>>

\* One of the worker's running timers fires
TimerFires ==
    /\ interval = "active" \/ orphans > 0
    /\ Len(toReader) < MaxQueue
    /\ toReader' = Append(toReader, "read")
    /\ last' = report("timer")
    /\ UNCHANGED <<readerVars, toWorker, workerVars, ghostVars, unitVars>>

(***************************************************************************)
(* Specifications                                                          *)
(***************************************************************************)
\* The reader driven by its worker: calibration, reset and the timer protocol
Next ==
    \/ \E image \in LiveFrames, auto \in BOOLEAN : CaptureCalibrationImage(image, auto)
    \/ AttemptCalibration
    \/ ResetCalibration
    \/ \E image \in LiveFrames : ReaderOnMessage(image)
    \/ WorkerOnMessage
    \/ TimerFires

Spec == Init /\ [][Next]_vars

\* The stability tracker under direct readDisplays calls
NextTracker ==
    \/ \E image \in LiveFrames : CaptureCalibrationImage(image, TRUE)
    \/ ResetCalibration
    \/ \E image \in LiveFrames : ReadDisplays(image)
    \/ WorkerOnMessage

SpecTracker == Init /\ [][NextTracker]_vars

\* The calibration engine over every ordered pair of the engine frames, with
\* the worker not scheduled
NextEngine ==
    \/ \E image \in EngineFrames, auto \in BOOLEAN : CaptureCalibrationImage(image, auto)
    \/ AttemptCalibration
    \/ ReadDisplays("lit12")

SpecEngine == Init /\ [][NextEngine]_vars

\* The reader and its worker when the event loops deliver every posted
\* message and every running timer keeps firing.  A step that removes the
\* head of toReader is a step of the reader's listener.
NextLive ==
    \/ \E image \in LiveFrames : CaptureCalibrationImage(image, TRUE)
    \/ AttemptCalibration
    \/ \E image \in LiveFrames : ReaderOnMessage(image)
    \/ WorkerOnMessage
    \/ TimerFires

ReaderReceives == toReader # <<>> /\ toReader' = Tail(toReader)

SpecLive ==
    /\ Init
    /\ [][NextLive]_vars
    /\ WF_vars(WorkerOnMessage)
    /\ WF_vars(TimerFires)
    /\ WF_toReader(ReaderReceives)

(***************************************************************************)
(* Methods called on their own, on arguments drawn from bounded sets       *)
(***************************************************************************)
\* The corner of the canvas the flooded cells are drawn from
WindowWidth == 3
WindowHeight == 2
FloodWindow == (0 .. WindowWidth - 1) \X (0 .. WindowHeight - 1)

\* Longest initial queue handed to generateBitmask
MaxSeeds == 2
FloodQueues == UNION {[1 .. n -> FloodWindow] : n \in 0 .. MaxSeeds}

\* generateBitmask with a test function that accepts the cells of include
GenerateBitmask ==
    /\ unit.op = "none"
    /\ \E include \in SUBSET FloodWindow, queue \in FloodQueues :
           unit' = [op |-> "generateBitmask", include |-> include, queue |-> queue,
                    result |-> generateBitmask(include, queue).result]
    /\ UNCHANGED <<readerVars, toWorker, toReader, workerVars, last, ghostVars, configuration>>

\* One digit decoded from the segments found on
DecodeDigit ==
    /\ unit.op = "none"
    /\ \E onFlags \in [Segments -> BOOLEAN] :
           unit' = [op |-> "decodeDigit", onFlags |-> onFlags, result |-> emit(onFlags)]
    /\ UNCHANGED <<readerVars, toWorker, toReader, workerVars, last, ghostVars, configuration>>

\* Gray values and ambient offsets isPixelLit is called on
Grays == {0, 50, 60, 125, 126, 200, 210, 255}
Offsets == {Frac(0, 1), Frac(1, 2), Frac(1, 3), Frac(-5, 1), Frac(10, 1)}

IsPixelLit ==
    /\ unit.op = "none"
    /\ \E pixelGray \in Grays, litGray \in Grays, unlitGray \in Grays, ambientOffset \in Offsets :
           unit' = [op |-> "isPixelLit", pixelGray |-> pixelGray, litGray |-> litGray,
                    unlitGray |-> unlitGray, ambientOffset |-> ambientOffset,
                    result |-> isPixelLit(pixelGray, <<0, 0>>, ambientOffset,
                                          <<0, 0>> :> litGray, <<0, 0>> :> unlitGray)]
    /\ UNCHANGED <<readerVars, toWorker, toReader, workerVars, last, ghostVars, configuration>>

\* Largest sample set of a segment
MaxPixels == 10

\* The classifications of a sample set of up to MaxPixels pixels; pixel i of
\* the set is <<i, 0>>
LitPatterns == UNION {[1 .. n -> BOOLEAN] : n \in 0 .. MaxPixels}
PixelsFor(litFlags) == [i \in 1 .. Len(litFlags) |-> <<i, 0>>]

\* The body of refine for one segment
RefineSegment ==
    /\ unit.op = "none"
    /\ \E litFlags \in LitPatterns :
           unit' = [op |-> "refine", litFlags |-> litFlags,
                    result |-> refineSegment(PixelsFor(litFlags), litFlags)]
    /\ UNCHANGED <<readerVars, toWorker, toReader, workerVars, last, ghostVars, configuration>>

\* The countdown of readDisplays for one segment
SegmentLit ==
    /\ unit.op = "none"
    /\ \E litFlags \in LitPatterns :
           unit' = [op |-> "segmentOn", litFlags |-> litFlags, result |-> segmentLit(litFlags)]
    /\ UNCHANGED <<readerVars, toWorker, toReader, workerVars, last, ghostVars, configuration>>

\* The difference grids the decimal point is looked for in: a row of pixels
\* from x = from to x = to in row row and the column of pixels at x = column,
\* the row at difference 180 and the column at difference columnGray, every
\* other pixel at 0
DecimalGrids ==
    [row : 3 .. 5, from : {0, 3, 4}, to : {15, 16, 17}, column : {9, 10, 12},
     columnGray : {floodFillDpThreshold, floodFillDpThreshold + 1}]

DecimalGrid(g) ==
    [p \in Coords |->
        IF p[2] = g.row /\ p[1] >= g.from /\ p[1] <= g.to THEN 180
        ELSE IF p[1] = g.column THEN g.columnGray
        ELSE 0]

\* The probes of a digit: one pixel in segment B and one in segment C
DecimalProbes ==
    {[segment \in 0 .. 6 |->
         IF segment = 1 THEN <<b>> ELSE IF segment = 2 THEN <<c>> ELSE <<>>] :
        b \in {<<8, 1>>, <<7, 3>>}, c \in {<<8, 2>>, <<6, 3>>}}

\* The body of groupObjects.forEach for a digit with two holes and no samples
\* yet, the probes and the difference grid given
SampleDigit ==
    /\ unit.op = "none"
    /\ \E g \in DecimalGrids, added \in DecimalProbes :
           unit' = [op |-> "sampleDigit", grid |-> g, added |-> added,
                    result |-> sampleDigit(emptySamples[0], <<"upper", "lower">>,
                                           added, DecimalGrid(g))]
    /\ UNCHANGED <<readerVars, toWorker, toReader, workerVars, last, ghostVars, configuration>>

\* Largest sample set handed to a sequence of refine passes, and the segments
\* of the digit that is refined
MaxRefined == 5
RefinedSegments == 0 .. 1

\* The sample pixels: the first n pixels of row 0
RefinedPixels == {<<x, 0>> : x \in 1 .. MaxRefined}
RefinedSets == {[i \in 1 .. n |-> <<i, 0>>] : n \in 0 .. MaxRefined}

\* The two loops of refine over the sample sets of samples, the captured frame
\* given as the set of pixels isPixelLit classifies lit in it
refineAgainst(samples, litPixels) ==
    [segment \in DOMAIN samples |->
        refineSegment(samples[segment],
                      [i \in 1 .. Len(samples[segment]) |-> samples[segment][i] \in litPixels])]

\* The sample sets a sequence of refine passes starts from
RefineFrom ==
    /\ unit.op = "none"
    /\ \E samples \in [RefinedSegments -> RefinedSets] :
           unit' = [op |-> "samples", start |-> samples, result |-> samples]
    /\ UNCHANGED <<readerVars, toWorker, toReader, workerVars, last, ghostVars, configuration>>

\* One refine pass over the sample sets the previous pass left
RefinePass ==
    /\ unit.op \in {"samples", "refinePass"}
    /\ \E litPixels \in SUBSET RefinedPixels :
           unit' = [op |-> "refinePass", start |-> unit.start, before |-> unit.result,
                    litPixels |-> litPixels,
                    result |-> refineAgainst(unit.result, litPixels)]
    /\ UNCHANGED <<readerVars, toWorker, toReader, workerVars, last, ghostVars, configuration>>

\* The values written to the configuration
Written ==
    {Number(-1), Number(0), Number(1), Number(254), Number(255), Number(256), NaN,
     String("25"), String("abc"), Boolean(TRUE), Boolean(FALSE), Null}

\* A write to one property of the configuration
SetConfiguration ==
    /\ \E value \in Written :
           \/ /\ configuration' = setDecimalPointFloodFillThreshold(configuration, value)
              /\ unit' = [op |-> "set", property |-> "decimalPointFloodFillThreshold",
                          value |-> value, before |-> configuration]
           \/ /\ configuration' = setGrayThreshold(configuration, value)
              /\ unit' = [op |-> "set", property |-> "grayThreshold",
                          value |-> value, before |-> configuration]
           \/ /\ configuration' = setRotate180(configuration, value)
              /\ unit' = [op |-> "set", property |-> "rotate180",
                          value |-> value, before |-> configuration]
    /\ UNCHANGED <<readerVars, toWorker, toReader, workerVars, last, ghostVars>>

SetDebugMaskColors ==
    /\ configuration' = setDebugMaskColors(configuration, String("colors"))
    /\ unit' = [op |-> "set", property |-> "debugMaskColors",
                value |-> String("colors"), before |-> configuration]
    /\ UNCHANGED <<readerVars, toWorker, toReader, workerVars, last, ghostVars>>

\* One call of a method of the reader on a reader that was just constructed
NextUnits ==
    \/ GenerateBitmask
    \/ DecodeDigit
    \/ IsPixelLit
    \/ RefineSegment
    \/ SegmentLit
    \/ SampleDigit

SpecUnits == Init /\ [][NextUnits]_vars

\* Writes to the configuration, one after the other
NextConfiguration ==
    \/ SetConfiguration
    \/ SetDebugMaskColors

SpecConfiguration == Init /\ [][NextConfiguration]_vars

\* Refine passes one after the other, each over a frame of its own
NextRefine ==
    \/ RefineFrom
    \/ RefinePass

SpecRefine == Init /\ [][NextRefine]_vars

(***************************************************************************)
(* Properties                                                              *)
(***************************************************************************)
changeOf(value) == [type |-> "change", value |-> value]
outputOf(value) == [type |-> "output", value |-> value]
zeroGrid == [p \in Coords |-> 0]

\* the number of entries at the end of a sequence that equal its last entry
trailingRun(decodedSeq) ==
    Len(decodedSeq) - Max({i \in 1 .. Len(decodedSeq) : decodedSeq[i] # decodedSeq[Len(decodedSeq)]}, 0)

\* C1: on every readDisplays tick 'output' fires exactly when the decoded
\* string has now been seen on 4 consecutive ticks, and it carries that string;
\* the decoded sequence A,A,A,A,B from a fresh reader fires change(A),
\* output(A) on the 4th A and change(B), and nothing else.
C1_OutputOnFourthTick ==
    (last.ran /\ history.tracked) =>
        LET h == history.decoded
            n == Len(h)
        IN  /\ n >= 1 /\ h[n] = last.decoded
            /\ (\E i \in DOMAIN last.events : last.events[i].type = "output")
                   <=> trailingRun(h) = 4
            /\ \A i \in DOMAIN last.events :
                   last.events[i].type = "output" => last.events[i] = outputOf(h[n])
            /\ (n = 5 /\ trailingRun(h) = 1 /\ trailingRun(SubSeq(h, 1, 4)) = 4)
                   => history.events = <<changeOf(h[1]), outputOf(h[1]), changeOf(h[5])>>

C1_Witness ==
    /\ last.ran /\ history.tracked
    /\ Len(history.decoded) = 5
    /\ trailingRun(history.decoded) = 1
    /\ trailingRun(SubSeq(history.decoded, 1, 4)) = 4
    /\ Len(history.events) = 3

\* C2: a readDisplays tick whose decoded string differs from lastDisplay (none
\* on the first tick after construction or resetCalibration) fires exactly one
\* 'change' carrying the new string, sets consistentOutputCount to 0 and stores
\* the string in lastDisplay; a tick whose decoded string equals lastDisplay
\* fires no 'change'.
C2_ChangeOnDifference ==
    [][last'.ran =>
          LET result == last'.decoded
              changes == SelectSeq(last'.events, LAMBDA e : e.type = "change")
          IN  IF lastDisplay # result
              THEN /\ changes = <<changeOf(result)>>
                   /\ consistentOutputCount' = 0
                   /\ lastDisplay' = result
              ELSE changes = <<>>]_vars

C2_Witness ==
    /\ last.ran /\ history.tracked
    /\ Len(history.decoded) >= 2
    /\ trailingRun(history.decoded) = 1
    /\ last.events = <<changeOf(last.decoded)>>
    /\ lastDisplay = last.decoded /\ consistentOutputCount = 0

\* C3 as stated: once 'output' has fired for a value it never fires again while
\* every later tick decodes that same value.
C3_NeverFiresAgain == last.refired = "no"

\* C3: once 'output' has fired for a value it fires again, while every later
\* tick decodes that same value, only if resetCalibration has run in between;
\* the counter keeps growing past 3 without firing.
C3_FiresAgainOnlyAfterReset == last.refired # "yes"

C3_Witness ==
    /\ last.ran /\ last.events = <<>>
    /\ consistentOutputCount = MaxCount
    /\ outputFor = [value |-> lastDisplay, reset |-> FALSE]

\* C4: a message from the worker never runs readDisplays while calibrated is
\* false; handling it then only posts 'readStop' to the worker and changes
\* nothing else of the reader.
C4_NoReadWhileUncalibrated ==
    [][last'.op = "message" =>
          IF calibrated = FALSE
          THEN /\ ~last'.ran /\ last'.events = <<>>
               /\ toWorker' = Append(toWorker, "readStop")
               /\ UNCHANGED readerVars
          ELSE last'.ran]_vars

C4_Witness ==
    /\ last.op = "message" /\ ~last.ran /\ ~calibrated
    /\ toWorker # <<>> /\ toWorker[Len(toWorker)] = "readStop"

\* C5: when the reader is not calibrated and the worker has received every
\* message posted to it, no timer of the worker is running.
C5_NoTimerOnceStopProcessed ==
    (~calibrated /\ toWorker = <<>>) => (interval # "active" /\ orphans = 0)

\* C6: attemptCalibration returns true exactly when the engine found its 12
\* holes; then it posts 'readStart' and sets calibrated; otherwise it posts no
\* 'readStart', leaves calibrated false and, the engine having run, returns
\* false.  If calibrated stays true from some point on, the worker keeps
\* posting 'read' and the reader keeps running readDisplays for them.
C6_AttemptArmsTicks ==
    /\ [][last'.attempted =>
             /\ last'.returned = "true" <=> last'.holes = requiredHoles
             /\ IF last'.returned = "true"
                THEN calibrated' /\ toWorker' = Append(toWorker, "readStart")
                ELSE /\ ~calibrated'
                     /\ toWorker' \in {toWorker, Append(toWorker, "readStop")}
                     /\ last'.holes # -1 => last'.returned = "false"]_vars
    /\ <>[]calibrated =>
           ([]<>(last.op = "timer") /\ []<>(last.op = "message" /\ last.ran))

C6_Witness ==
    /\ calibrated /\ last.op = "message" /\ last.ran
    /\ interval = "active"

\* C7: the reader never holds more than 2 calibration images.  A
\* captureCalibrationImage call with fewer than 2 held appends the frame and
\* attempts calibration exactly when that makes 2 and autoAttemptCalibration is
\* true (the attempt then decides what is kept); a call with 2 held resets all
\* calibration state, stores the frame as the only one and attempts nothing.
C7_CaptureHoldsAtMostTwo ==
    /\ [](Len(calibrationImages) <= 2)
    /\ [][last'.op = "captureCalibrationImage" =>
             LET held == Len(calibrationImages)
             IN  /\ last'.attempted <=> (held = 1 /\ last'.auto)
                 /\ held = 2 =>
                        /\ Len(calibrationImages') = 1
                        /\ toWorker' = Append(toWorker, "readStop")
                        /\ ~calibrated'
                        /\ lastDisplay' = NoDisplay /\ consistentOutputCount' = 0
                        /\ grayArray' = zeroGrid /\ litReference' = zeroGrid
                        /\ unlitReference' = zeroGrid /\ backgroundMask' = zeroGrid
                        /\ segmentSamples' = emptySamples
                 /\ (held < 2 /\ ~last'.attempted) =>
                        /\ Len(calibrationImages') = held + 1
                        /\ SubSeq(calibrationImages', 1, held) = calibrationImages
                        /\ UNCHANGED <<calibrated, lastDisplay, consistentOutputCount,
                                       grayArray, litReference, unlitReference,
                                       backgroundMask, segmentSamples, toWorker>>
                 /\ (last'.attempted /\ last'.returned = "true") =>
                        /\ Len(calibrationImages') = 2
                        /\ SubSeq(calibrationImages', 1, 1) = calibrationImages
                 /\ (last'.attempted /\ last'.returned = "false") =>
                        calibrationImages' = <<>>]_vars

C7_Witness ==
    /\ last.op = "captureCalibrationImage"
    /\ last.reset /\ ~last.attempted
    /\ Len(calibrationImages) = 1

\* C8: with two frames held, the engine run on them in the other order gives
\* the same success flag, the same litReference, unlitReference and
\* backgroundMask as the reader holds after calibrating, and the same
\* segment sample sets.
C8_OrderIndependent ==
    Len(calibrationImages) = 2 =>
        LET asHeld == determineLocations(calibrationImages, emptySamples)
            swapped == determineLocations(<<calibrationImages[2], calibrationImages[1]>>,
                                          emptySamples)
        IN  /\ swapped.success = asHeld.success
            /\ swapped.segmentSamples = asHeld.segmentSamples
            /\ calibrated =>
                   /\ litReference = swapped.litReference
                   /\ unlitReference = swapped.unlitReference
                   /\ backgroundMask = swapped.backgroundMask

\* C9: a calibration attempt in which the engine finds a number of holes other
\* than 12 returns false and leaves nothing: calibrated false, no image held,
\* the four grids zero, every sample set empty, lastDisplay none, the counter
\* 0, and 'readStop' posted to the worker.
C9_FailureLeavesNothing ==
    (last.attempted /\ last.holes \notin {-1, requiredHoles}) =>
        /\ last.returned = "false"
        /\ ~calibrated
        /\ calibrationImages = <<>>
        /\ litReference = zeroGrid /\ unlitReference = zeroGrid
        /\ grayArray = zeroGrid /\ backgroundMask = zeroGrid
        /\ segmentSamples = emptySamples
        /\ lastDisplay = NoDisplay /\ consistentOutputCount = 0
        /\ toWorker # <<>> /\ toWorker[Len(toWorker)] = "readStop"

C9_Witness ==
    /\ last.op = "attemptCalibration"
    /\ last.holes \in {11, 13}
    /\ last.returned = "false"
    /\ outputFor.reset

\* The layout of holes in the difference map of a held pair: a frame with
\* every column lit against its dark frame
LayoutOf(images) ==
    LET pair == {images[1], images[2]}
    IN  CASE pair = {"lit12", "dark"} -> Layout12
          [] pair = {"litT", "darkT"} -> Layout12
          [] pair = {"litJ", "dark"} -> LayoutJitter
          [] pair = {"lit11", "dark"} -> Layout11
          [] pair = {"lit13", "dark"} -> Layout13
          [] OTHER -> [cell \in Cells |-> "none"]

\* 12 holes of at least minPixels pixels as 6 pairs, column i holding pair i
SixPairs(layout, minPixels) ==
    /\ \A cell \in Cells : layout[cell] # "none" <=> cell[1] <= 5
    /\ \A cell \in Cells :
           cell[1] <= 5 => Cardinality(CellInterior(cell, layout[cell])) >= minPixels

PixelSet(pixels) == {pixels[i] : i \in DOMAIN pixels}
Shifted(cells, dx, dy) == {<<p[1] + dx, p[2] + dy>> : p \in cells}

\* calibration succeeds with 6 groups, group i holding exactly the two holes of
\* column i, and the upper hole's probes going to segments A, F, B, G and the
\* lower hole's to E, C, D
GroupedAsPairs(images) ==
    LET layout == LayoutOf(images)
        found == located[<<images[1], images[2]>>]
        result == determineLocations(images, emptySamples)
        upper(i) == CellInterior(<<i, 0>>, layout[<<i, 0>>])
        lower(i) == CellInterior(<<i, 1>>, layout[<<i, 1>>])
    IN  /\ result.success
        /\ Len(found.groups) = 6
        /\ \A i \in Digits :
               /\ Len(found.groups[i + 1]) = 2
               /\ {PixelSet(found.groups[i + 1][j].pixels) : j \in 1 .. 2} = {upper(i), lower(i)}
               /\ PixelSet(result.segmentSamples[i][0]) \subseteq Shifted(upper(i), 0, -horizontalReach)
               /\ PixelSet(result.segmentSamples[i][5]) \subseteq Shifted(upper(i), -reach, 0)
               /\ PixelSet(result.segmentSamples[i][1]) \subseteq Shifted(upper(i), reach, 0)
               /\ PixelSet(result.segmentSamples[i][6]) \subseteq Shifted(upper(i), 0, horizontalReach)
               /\ PixelSet(result.segmentSamples[i][4]) \subseteq Shifted(lower(i), -reach, 0)
               /\ PixelSet(result.segmentSamples[i][2]) \subseteq Shifted(lower(i), reach, 0)
               /\ PixelSet(result.segmentSamples[i][3]) \subseteq Shifted(lower(i), 0, horizontalReach)
        /\ \E i \in Digits : result.segmentSamples[i][1] # <<>> /\ result.segmentSamples[i][2] # <<>>

\* C10 as stated: a held pair whose difference map has 12 holes of 10 or more
\* pixels as 6 left-to-right pairs calibrates into the 6 groups of its pairs.
C10_TenOrMorePixels ==
    (Len(calibrationImages) = 2 /\ SixPairs(LayoutOf(calibrationImages), 10))
        => GroupedAsPairs(calibrationImages)

\* C10: a held pair whose difference map has 12 holes of more than 10 pixels
\* as 6 left-to-right pairs calibrates into 6 groups, group i holding the two
\* holes of the i-th pair from the left, the one with the smaller mean Y as
\* the upper hole.
C10_MoreThanTenPixels ==
    (Len(calibrationImages) = 2 /\ SixPairs(LayoutOf(calibrationImages), 11))
        => GroupedAsPairs(calibrationImages)

C10_Witness ==
    /\ calibrated
    /\ calibrationImages = <<"dark", "litJ">>
    /\ last.returned = "true"
    /\ segmentSamples = determineLocations(calibrationImages, emptySamples).segmentSamples

(***************************************************************************)
(* Flood fill                                                              *)
(***************************************************************************)
Adjacent(p, q) == p # q /\ Abs(p[1] - q[1]) <= 1 /\ Abs(p[2] - q[2]) <= 1

\* The cells of include that a path of 8-connected steps through include
\* reaches from the cells of start
Around(p) ==
    {<<p[1] + dx, p[2] + dy>> : dx \in -1 .. 1, dy \in -1 .. 1} \ {p}

RECURSIVE Grown(_, _, _)
Grown(include, frontier, reached) ==
    IF frontier = {} THEN reached
    ELSE Grown(include,
               ((UNION {Around(p) : p \in frontier}) \cap include) \ (reached \cup frontier),
               reached \cup frontier)

Reachable(include, start) == Grown(include, start, {})

Reversed(queue) == [i \in 1 .. Len(queue) |-> queue[Len(queue) + 1 - i]]

SeedsOf(queue) == IF queue = <<>> THEN {<<0, 0>>} ELSE {queue[i] : i \in 1 .. Len(queue)}

MaskOf(onFlags) ==
    LET weight(segment) == IF onFlags[segment] THEN 2 ^ segment ELSE 0
    IN  weight(0) + weight(1) + weight(2) + weight(3) + weight(4) + weight(5) + weight(6)

\* What a digit emits without the point that follows it
CharacterOf(emitted, onFlags) ==
    IF onFlags[7] THEN SubSeq(emitted, 1, Len(emitted) - 1) ELSE emitted

\* C12: for every mask in 0..127 the digit emits the table entry of the mask
\* when the mask is one of the 43 mapped values (63 gives "0", 6 gives "1", 91
\* gives "2", 0 gives " ") and the placeholder for every other mask (1 among
\* them); every mask decodes to something.
C12_TableOrPlaceholder ==
    unit.op = "decodeDigit" =>
        LET m == MaskOf(unit.onFlags)
            char == CharacterOf(unit.result, unit.onFlags)
        IN  /\ m \in 0 .. 127
            /\ Cardinality(DOMAIN charMap) = 43
            /\ DOMAIN charMap \subseteq 0 .. 127
            /\ m \in DOMAIN charMap => char = <<charMap[m]>>
            /\ m \notin DOMAIN charMap => char = placeholder
            /\ m = 63 => char = <<"0">>
            /\ m = 6 => char = <<"1">>
            /\ m = 91 => char = <<"2">>
            /\ m = 0 => char = <<" ">>
            /\ m = 1 => char = placeholder
            /\ char # <<>>
            /\ unit.onFlags[7] => unit.result = char \o <<".">>

\* The unmapped mask 1 decoded, with the decimal point on
C12_Witness ==
    /\ unit.op = "decodeDigit"
    /\ MaskOf(unit.onFlags) = 1
    /\ unit.onFlags[7]
    /\ unit.result = placeholder \o <<".">>

(***************************************************************************)
(* Classifying a pixel                                                     *)
(***************************************************************************)
\* |pixelGray - ambientOffset - reference| as a fraction
DistanceTo(pixelGray, ambientOffset, reference) ==
    FracAbsDiff(FracAdd(Frac(pixelGray, 1), Frac(-ambientOffset.n, ambientOffset.d)),
                Frac(reference, 1))

\* C13: isPixelLit is true exactly when |gray - offset - lit| <= |gray -
\* offset - unlit|, a tie and a flat pixel (lit = unlit) included; with lit
\* 200, unlit 50 and offset 0, gray 210 and gray 125 are lit and gray 60 is
\* not.
C13_LitIffNotFartherFromLit ==
    unit.op = "isPixelLit" =>
        /\ unit.result =
               ~FracLess(DistanceTo(unit.pixelGray, unit.ambientOffset, unit.unlitGray),
                         DistanceTo(unit.pixelGray, unit.ambientOffset, unit.litGray))
        /\ unit.litGray = unit.unlitGray => unit.result
        /\ (unit.litGray = 200 /\ unit.unlitGray = 50 /\ unit.ambientOffset = Frac(0, 1)) =>
               /\ unit.pixelGray = 210 => unit.result
               /\ unit.pixelGray = 125 => unit.result
               /\ unit.pixelGray = 60 => ~unit.result

\* The midpoint between the references, classified lit
C13_Witness ==
    /\ unit.op = "isPixelLit"
    /\ unit.litGray = 200
    /\ unit.unlitGray = 50
    /\ unit.pixelGray = 125
    /\ unit.ambientOffset = Frac(0, 1)
    /\ unit.result

(***************************************************************************)
(* Sample sets: refine and the countdown of readDisplays                   *)
(***************************************************************************)
LitCount(litFlags) == Cardinality({i \in 1 .. Len(litFlags) : litFlags[i]})

C15_ValidatedOnWrite ==
    (unit.op = "set" /\ unit.property # "debugMaskColors") =>
        LET valid == IF unit.property = "rotate180" THEN unit.value.type = "boolean"
                     ELSE /\ unit.value.type = "number"
                          /\ unit.value.value >= 0
                          /\ unit.value.value <= 255
        IN  configuration =
                IF valid THEN [unit.before EXCEPT ![unit.property] = unit.value]
                ELSE unit.before

\* C16 as stated: a segment is on if and only if more than half of its sample
\* pixels classify lit; an empty sample set is never on.
C16_OnIffMoreThanHalfLit ==
    unit.op = "segmentOn" =>
        unit.result = (2 * LitCount(unit.litFlags) > Len(unit.litFlags))

(***************************************************************************)
(* Calibration: groups, sample sets and the background mask                *)
(***************************************************************************)
HeldPair == <<calibrationImages[1], calibrationImages[2]>>

\* C17 as stated: when 12 hole components are found and the grouping leaves a
\* group whose member count is not 2, the calibration attempt returns false,
\* calibrated is false, no 'readStart' is posted and the grids and the sample
\* sets are zero and empty.
C17_MalformedGroupFails ==
    (/\ last.attempted
     /\ last.holes = requiredHoles
     /\ Len(calibrationImages) = 2
     /\ \E digit \in Digits : Len(located[HeldPair].groups[digit + 1]) # 2) =>
        /\ last.returned = "false"
        /\ ~calibrated
        /\ segmentSamples = emptySamples
        /\ grayArray = zeroGrid
        /\ backgroundMask = zeroGrid

\* C18 as stated: after a successful attemptCalibration the sample sets are
\* what the two held frames give from empty sample sets, whatever the sample
\* sets were before the call.
C18_SamplesReplaced ==
    (last.attempted /\ last.returned = "true") =>
        segmentSamples = determineLocations(calibrationImages, emptySamples).segmentSamples

\* The canvas edge
Border ==
    {p \in Coords : p[1] = 0 \/ p[2] = 0 \/ p[1] = Width - 1 \/ p[2] = Height - 1}

\* The non-detectable pixels a path of non-detectable pixels joins to the edge
BorderFlood(pair) ==
    BitmaskOf(Reachable(Coords \ located[pair].detectable,
                        Border \ located[pair].detectable)) @@ <<>>

BorderFloods == Tabulate(BorderFlood, EngineFrames \X EngineFrames)

\* C19 as stated: after calibration the background mask marks exactly the
\* non-detectable pixels that non-detectable pixels join to the canvas edge.
C19_BackgroundFromBorder ==
    calibrated => backgroundMask = BorderFloods[HeldPair]

(***************************************************************************)
(* What a decode tick leaves alone                                         *)
(***************************************************************************)
\* C20: a step that runs readDisplays leaves the reference grids, the
\* difference grid, the background mask, the sample sets, the held images and
\* calibrated as they were; the grids change only in a step that runs
\* attemptCalibration or resetCalibration, called directly or from
\* captureCalibrationImage.
C20_TickLeavesCalibrationData ==
    [][/\ last'.ran =>
             /\ litReference' = litReference
             /\ unlitReference' = unlitReference
             /\ grayArray' = grayArray
             /\ backgroundMask' = backgroundMask
             /\ segmentSamples' = segmentSamples
             /\ calibrationImages' = calibrationImages
             /\ calibrated' = calibrated
       /\ (\/ litReference' # litReference
           \/ unlitReference' # unlitReference
           \/ grayArray' # grayArray
           \/ backgroundMask' # backgroundMask) =>
             \/ last'.op \in {"attemptCalibration", "resetCalibration"}
             \/ last'.op = "captureCalibrationImage" /\ (last'.attempted \/ last'.reset)]_vars

\* A tick of a calibrated reader that decoded a string other than the last one
C20_Witness ==
    /\ last.op = "message"
    /\ last.ran
    /\ calibrated
    /\ last.events # <<>>
    /\ lastDisplay = last.decoded
    /\ segmentSamples # emptySamples

(***************************************************************************)
(* Sequences of refine passes                                              *)
(***************************************************************************)
\* whether sub is what is left of whole when some of its entries are removed
RECURSIVE Subsequence(_, _)
Subsequence(sub, whole) ==
    IF sub = <<>> THEN TRUE
    ELSE IF whole = <<>> THEN FALSE
    ELSE IF Head(sub) = Head(whole) THEN Subsequence(Tail(sub), Tail(whole))
    ELSE Subsequence(sub, Tail(whole))

\* C21: after every refine pass of a sequence of passes, each over any frame,
\* every sample set is a subsequence of the set before the pass (and so of the
\* set the sequence started from), and a set that was not empty is not empty.
C21_RefineNeverEmpties ==
    unit.op = "refinePass" =>
        \A segment \in RefinedSegments :
            /\ Subsequence(unit.result[segment], unit.before[segment])
            /\ Subsequence(unit.result[segment], unit.start[segment])
            /\ unit.before[segment] # <<>> => unit.result[segment] # <<>>
            /\ unit.start[segment] # <<>> => unit.result[segment] # <<>>

\* A set of 5 narrowed to 4 by an earlier pass and to 3 by this one, next to a
\* set this pass leaves as it is
C21_Witness ==
    /\ unit.op = "refinePass"
    /\ Len(unit.start[0]) = 5
    /\ Len(unit.before[0]) = 4
    /\ Len(unit.result[0]) = 3
    /\ unit.result[1] = unit.before[1]
    /\ unit.result[1] # <<>>

(***************************************************************************)
(* Calibration attempts with fewer than 2 frames held                      *)
(***************************************************************************)
\* C22 as stated: every calibration attempt runs the engine on exactly 2 held
\* frames and completes with true or false, never by throwing, also when
\* attemptCalibration is called with 0 or 1 frames held.
C22_AttemptReturnsBoolean ==
    last.attempted =>
        /\ last.returned \in {"true", "false"}
        /\ last.holes # -1

(***************************************************************************)
(* The decimal point sample set                                            *)
(***************************************************************************)
\* The seed of the decimal point fill: 2 right of the rightmost and 2 below
\* the bottommost sample pixel of segments 0..6
DecimalSeed(segments) ==
    LET all == UNION {PixelSet(segments[segment]) : segment \in 0 .. 6}
    IN  <<Max({p[1] : p \in all}, -1) + 2, Max({p[2] : p \in all}, -1) + 2>>

\* The pixels of difference above floodFillDpThreshold that steps through
\* such pixels reach from the seed
DecimalFlood(gray, seed) ==
    LET include == {p \in Coords : gray[p] > floodFillDpThreshold}
    IN  Reachable(include, {q \in include : Adjacent(seed, q)})

\* The flooded pixels at most distance away from the seed on both axes
Near(flood, seed, distance) ==
    {p \in flood : Abs(p[1] - seed[1]) <= distance /\ Abs(p[2] - seed[2]) <= distance}

\* C23 as stated: sample set 7 of a digit holds the flooded pixels whose x and
\* y are both at most 6 away from the seed.
C23_WithinSixOfSeed ==
    unit.op = "sampleDigit" =>
        LET seed == DecimalSeed(unit.added)
        IN  PixelSet(unit.result[7]) = Near(DecimalFlood(DecimalGrid(unit.grid), seed), seed, 6)

\* C23: sample set 7 of a digit holds, in row-major order and once each, the
\* pixels of the flood fill from (rightmost + 2, bottommost + 2) over the
\* difference grid with the test value > floodFillDpThreshold whose x and y
\* are both less than 6 away from the seed: a flooded pixel 5 away on an axis
\* is kept and one 6 away is dropped.
C23_LessThanSixFromSeed ==
    unit.op = "sampleDigit" =>
        LET seed == DecimalSeed(unit.added)
            flood == DecimalFlood(DecimalGrid(unit.grid), seed)
        IN  /\ unit.result[7] = SelectSeq(ScanOrder, LAMBDA p : p \in Near(flood, seed, 5))
            /\ \A segment \in 0 .. 6 : unit.result[segment] = unit.added[segment]

\* A fill that reaches pixels 5, 6 and 7 away from the seed on an axis, through
\* the row and the column
C23_Witness ==
    /\ unit.op = "sampleDigit"
    /\ unit.grid.columnGray > floodFillDpThreshold
    /\ LET seed == DecimalSeed(unit.added)
           flood == DecimalFlood(DecimalGrid(unit.grid), seed)
       IN  /\ \E p \in flood : Abs(p[1] - seed[1]) = 5 /\ p \in PixelSet(unit.result[7])
           /\ \E p \in flood : Abs(p[1] - seed[1]) = 6 /\ Abs(p[2] - seed[2]) <= 5
           /\ \E p \in flood : Abs(p[2] - seed[2]) = 6 /\ Abs(p[1] - seed[1]) <= 5
           /\ \E p \in flood : Abs(p[1] - seed[1]) = 7
           /\ Len(unit.result[7]) >= 10

(***************************************************************************)
(* The order of 'change' and 'output'                                      *)
(***************************************************************************)
\* C24: every 'output' a readDisplays run fires carries the value of the
\* latest 'change' fired since the last resetCalibration, such a 'change'
\* exists, and no other 'output' was fired since that 'change'.
C24_OutputFollowsChange ==
    [][last'.ran =>
          \A i \in DOMAIN last'.events :
              last'.events[i].type = "output" =>
                  /\ notified.change # NoDisplay
                  /\ last'.events[i].value = notified.change
                  /\ notified.outputs = 0
                  /\ notified'.outputs = 1]_vars

\* 'output' fired for a value it had fired for before resetCalibration ran,
\* the 'change' fired after the reset carrying that value again
C24_Witness ==
    /\ last.ran
    /\ last.events = <<outputOf(last.decoded)>>
    /\ last.refired = "afterReset"
    /\ notified = [change |-> last.decoded, outputs |-> 1]

(***************************************************************************)
(* The calibrated flag and the calibration data                            *)
(***************************************************************************)
\* C25: between operations, while calibrated is false every sample set is
\* empty and litReference, unlitReference, the difference grid and the
\* background mask are zero everywhere; while calibrated is true exactly 2
\* calibration images are held.
C25_UncalibratedHoldsNothing ==
    /\ ~calibrated =>
           /\ segmentSamples = emptySamples
           /\ litReference = zeroGrid
           /\ unlitReference = zeroGrid
           /\ grayArray = zeroGrid
           /\ backgroundMask = zeroGrid
    /\ calibrated => Len(calibrationImages) = 2

\* A reader that was calibrated and ticking, was reset, holds one image again
\* and has just had attemptCalibration throw
C25_Witness ==
    /\ ~calibrated
    /\ interval = "cleared"
    /\ Len(calibrationImages) = 1
    /\ last.op = "attemptCalibration"
    /\ last.returned = "threw"

====
